---------------------------- MODULE Spec2Model ----------------------------
(* A model of the tafsir retrieval service: the derived-content cache of     *)
(* src/utils.py, the two vector-search engines (ArabicTafsirRAG in           *)
(* src/main.py, TafsirSearchEngine in src/search_index.py), the Qdrant       *)
(* search of src/qdrant_utils.py and the index snapshot save/load paths.     *)
EXTENDS Integers, Sequences, FiniteSets, TLC

VARIABLES
    fs,        \* cache files on disk: path -> file content (a sequence of tokens)
    ret,       \* what the last completed cache read returned, and for which key
    lastPut,   \* history: key -> text of the most recent completed put on that key
    puts,      \* number of puts started so far (bounded by MaxPuts)
    procs,     \* per request thread: position inside a cache read or write
    written,   \* history: path -> set of texts any put ever started writing there
    model_name,      \* ArabicTafsirRAG.model_name
    documents,       \* ArabicTafsirRAG.documents
    embeddings,      \* ArabicTafsirRAG.embeddings (None or an array of rows)
    faiss_index,     \* ArabicTafsirRAG.faiss_index (None or the vectors added)
    entries,         \* TafsirSearchEngine.entries
    eng_embeddings,  \* TafsirSearchEngine.embeddings
    collection,      \* the Qdrant collection "tafsir": a sequence of points
    req,             \* the last search call: engine and arguments
    results,         \* what the last search call returned
    corpus,          \* the passages in the data directory, in enumeration order
    disk,            \* snapshot files: faiss_index.bin, documents.pkl,
                     \* metadata.json (main.py), entries.pkl, embeddings.npy
    program,         \* what the running process executes: "api", "main", "engine"
    pc,              \* its position
    runs,            \* number of processes started so far (bounded by MaxRuns)
    saves,           \* history: number of snapshot saves started so far
    loaded,          \* what the snapshot load just made returned, and the files it saw
    outcome,         \* how the search call just made ended
    found,           \* the last search_text call: its arguments and what it returned
    raw,             \* the data directory as files: author folders, surah files, entries
    loads,           \* history: what each load of the data directory produced
    metadata,        \* process_author_folder: the metadata list of one surah file
    ayah_texts,      \* process_author_folder: ayah number -> text of its .txt file
    consolidated     \* process_author_folder: the list written to the output file

cacheVars == <<fs, ret, lastPut, puts, procs, written>>
ragVars == <<model_name, documents, embeddings, faiss_index>>
engVars == <<entries, eng_embeddings>>
searchVars == <<req, results>>
indexVars == <<model_name, documents, embeddings, faiss_index, entries, eng_embeddings,
              collection, req, results>>

lifeVars == <<corpus, disk, program, pc, runs, saves, loaded, outcome>>
lookupVars == <<found>>
loadVars == <<raw, loads>>
prepVars == <<metadata, ayah_texts, consolidated>>
extVars == <<found, raw, loads, metadata, ayah_texts, consolidated>>

vars == <<fs, ret, lastPut, puts, procs, written, model_name, documents, embeddings,
          faiss_index, entries, eng_embeddings, collection, req, results,
          corpus, disk, program, pc, runs, saves, loaded, outcome,
          found, raw, loads, metadata, ayah_texts, consolidated>>

-----------------------------------------------------------------------------
(* Bounds *)

MaxPuts == 3
MaxAyah == 1
NumProcs == 2
ChunkLen == 2
MaxBig == 10
MaxSmall == 2
MaxK == 2
MaxDocs == 2
MaxRuns == 2
MaxSaves == 2
MaxRangeAyah == 4
MaxPoints == 2
MaxFiles == 2
MaxEntries == 2
MaxLoads == 2
MaxMetaAyah == 3
MaxMeta == 3

-----------------------------------------------------------------------------
(* Derived-content cache: src/utils.py *)

TRANSLATION_DIR == "translation"
REFLECTION_DIR == "reflection"

Authors == {"ibn-katheer"}
Surahs == {1}
Ayahs == 1..MaxAyah
LangEn == <<"e", "n">>
LangUr == <<"u", "r">>
Langs == {LangEn, LangUr}
\* derived texts (translated text or reflection), as sequences of characters
Texts == {<<"a">>, <<"b", "c", "d">>, <<>>}

DigitChar == <<"0", "1", "2", "3", "4", "5", "6", "7", "8", "9">>

\* str(n) of a non-negative integer, as the f-strings format it
RECURSIVE Digits(_)
Digits(n) == IF n < 10 THEN <<DigitChar[n + 1]>>
             ELSE Digits(n \div 10) \o <<DigitChar[(n % 10) + 1]>>

\* A cache key: ayah is <<a>> for a translation, <<from, to>> for a reflection.
TranslationKeys ==
    { [kind |-> "translation", author |-> a, surah |-> s, ayah |-> <<y>>, lang |-> l] :
        a \in Authors, s \in Surahs, y \in Ayahs, l \in Langs }

ReflectionKeys ==
    { [kind |-> "reflection", author |-> a, surah |-> s, ayah |-> r, lang |-> l] :
        a \in Authors, s \in Surahs, l \in Langs,
        r \in { x \in Ayahs \X Ayahs : x[1] <= x[2] } }

Keys == TranslationKeys \cup ReflectionKeys

\* utils.py:12 and :20, the mutant drops the language from the file name
TranslationPathNoLang(author, surah, ayah, lang_code) ==
    [dir |-> TRANSLATION_DIR, author |-> author,
     name |-> Digits(surah) \o <<"_">> \o Digits(ayah) \o <<"_">> \o <<".json">>]

TranslationPath(author, surah, ayah, lang_code) ==
    [dir |-> TRANSLATION_DIR, author |-> author,
     name |-> Digits(surah) \o <<"_">> \o Digits(ayah) \o <<"_">> \o lang_code
              \o <<".json">>]

\* a file name that leaves the language out
ReflectionPathNoLang(author, surah, from_ayah, to_ayah, lang) ==
    [dir |-> REFLECTION_DIR, author |-> author,
     name |-> Digits(surah) \o <<"_">> \o Digits(from_ayah) \o <<"_">>
              \o Digits(to_ayah) \o <<"_">> \o <<".json">>]

\* utils.py:25-26 and :34-35
ReflectionPath(author, surah, from_ayah, to_ayah, lang) ==
    [dir |-> REFLECTION_DIR, author |-> author,
     name |-> Digits(surah) \o <<"_">> \o Digits(from_ayah) \o <<"_">>
              \o Digits(to_ayah) \o <<"_">> \o lang \o <<".json">>]

PathOf(k) ==
    IF k.kind = "translation"
    THEN TranslationPath(k.author, k.surah, k.ayah[1], k.lang)
    ELSE ReflectionPath(k.author, k.surah, k.ayah[1], k.ayah[2], k.lang)

FieldOf(k) == IF k.kind = "translation" THEN "translated_text" ELSE "reflection"

\* os.path.join(DIR, author, fname): the path as one string, the directory and
\* the author being single path segments
JoinPath(p) == <<p.dir, "/", p.author, "/">> \o p.name

\* keys over a wider range of authors and of one- and two-digit numbers
WideKeys ==
    LET nums == {1, 11}
        auths == {"ibn-katheer", "qurtubi"}
    IN  { [kind |-> "translation", author |-> a, surah |-> s, ayah |-> <<y>>, lang |-> l] :
            a \in auths, s \in nums, y \in nums, l \in Langs }
        \cup
        { [kind |-> "reflection", author |-> a, surah |-> s, ayah |-> r, lang |-> l] :
            a \in auths, s \in nums, r \in nums \X nums, l \in Langs }

\* json.dump({field: text}, f): the serialised object, token by token
JsonDump(field, text) == <<"{", field, ":">> \o text \o <<"}">>

TextChars == UNION { {t[i] : i \in 1..Len(t)} : t \in Texts }

\* json.load(f): the file parses only if it is one complete object
JsonWellFormed(content) ==
    /\ Len(content) >= 4
    /\ content[1] = "{"
    /\ content[2] \in {"translated_text", "reflection"}
    /\ content[3] = ":"
    /\ content[Len(content)] = "}"
    /\ \A i \in 4..(Len(content) - 1) : content[i] \in TextChars

Miss == [kind |-> "miss", text |-> <<>>]
DecodeError == [kind |-> "error", text |-> <<>>]
Hit(text) == [kind |-> "hit", text |-> text]

\* json.load(f).get(field): None when the object has no such field
JsonLoadGet(content, field) ==
    IF ~JsonWellFormed(content) THEN DecodeError
    ELSE IF content[2] # field THEN Miss
    ELSE Hit(SubSeq(content, 4, Len(content) - 1))

\* load_cached_translation / load_cached_reflection as one whole call
LoadCached(files, k) ==
    IF PathOf(k) \in DOMAIN files
    THEN JsonLoadGet(files[PathOf(k)], FieldOf(k))
    ELSE Miss

\* the file system after path holds content
WriteFile(files, path, content) ==
    [p \in (DOMAIN files) \cup {path} |-> IF p = path THEN content ELSE files[p]]

\* save_translation_to_cache / save_reflection_to_cache as one whole call
SaveToCache(files, k, text) ==
    WriteFile(files, PathOf(k), JsonDump(FieldOf(k), text))

-----------------------------------------------------------------------------
(* Passages, embeddings and the three search paths *)

MODEL_MINILM == "sentence-transformers/paraphrase-multilingual-MiniLM-L12-v2"
MODEL_DISTILUSE == "distiluse-base-multilingual-cased-v1"

\* factor by which ArabicTafsirRAG.search over-fetches under an author filter
OVERFETCH == 10
\* the k of the example search of the script in main.py
MAIN_K == 3

PTexts == <<"t1", "t2", "t3">>
Queries == {"q1", "fasting"}
AuthorNames == {"qurtubi", "ibn-katheer", "Ibn-Katheer"}

\* Optional values: None, or an array of rows
None == [some |-> FALSE, rows |-> <<>>]
Some(rows) == [some |-> TRUE, rows |-> rows]

\* ArabicTafsirRAG.embeddings: views tells whether the documents' embedding
\* fields are views of this array (main.py:179) or arrays of their own
NoEmb == [some |-> FALSE, rows |-> <<>>, views |-> FALSE]
Emb(rows, views) == [some |-> TRUE, rows |-> rows, views |-> views]

\* Python values of the surah argument: an int, a str, or None
IntV(n) == [t |-> "int", n |-> n]
StrV(n) == [t |-> "str", n |-> n]
PyNone == [t |-> "none", n |-> 0]
\* truth value of `if surah:` -- None and 0 are false, every str(n) is non-empty
Truthy(x) == (x.t = "int" /\ x.n # 0) \/ x.t = "str"

\* str.lower() on the author names
Lower(a) == CASE a = "Ibn-Katheer" -> "ibn-katheer"
              [] OTHER -> a

\* translate.translate_text: the query rendered in Arabic (external call)
TranslateText(q) == CASE q = "fasting" -> "q2"
                      [] OTHER -> q

\* SentenceTransformer(model).encode(text): the raw, unnormalised embedding
Embed(model, text) ==
    IF model = MODEL_MINILM
    THEN CASE text = "t1" -> <<3, 4>>
           [] text = "t2" -> <<8, 6>>
           [] text = "t3" -> <<0, 5>>
           [] text = "q1" -> <<6, 8>>
           [] text = "q2" -> <<5, 0>>
           [] OTHER -> <<0, 10>>
    ELSE CASE text = "t1" -> <<4, 3>>
           [] text = "t2" -> <<0, 10>>
           [] text = "t3" -> <<5, 0>>
           [] text = "q1" -> <<3, 4>>
           [] text = "q2" -> <<0, 5>>
           [] OTHER -> <<10, 0>>

Dot(a, b) == a[1] * b[1] + a[2] * b[2]
Norm(v) == CHOOSE n \in 0..20 : n * n = Dot(v, v)
\* L2 normalisation; a unit vector is held in fifths, so a score is in 25ths
Normalize(v) == <<(v[1] * 5) \div Norm(v), (v[2] * 5) \div Norm(v)>>
\* sklearn cosine_similarity of two raw vectors
Cosine(a, b) == Dot(Normalize(a), Normalize(b))

Min(a, b) == IF a < b THEN a ELSE b

\* indices 1..Len(sims) by descending score; equal scores keep index order
\* (list.sort(key=score, reverse=True) is stable), the mutant sorts ascending
RankAscending(sims) ==
    LET n == Len(sims)
        pos(i) == 1 + Cardinality({ j \in 1..n :
                        sims[j] < sims[i] \/ (sims[j] = sims[i] /\ j < i) })
    IN  [r \in 1..n |-> CHOOSE i \in 1..n : pos(i) = r]

\* descending, but equal scores in reverse index order
RankTiesReversed(sims) ==
    LET n == Len(sims)
        pos(i) == 1 + Cardinality({ j \in 1..n :
                        sims[j] > sims[i] \/ (sims[j] = sims[i] /\ j > i) })
    IN  [r \in 1..n |-> CHOOSE i \in 1..n : pos(i) = r]

StableRank(sims) ==
    LET n == Len(sims)
        pos(i) == 1 + Cardinality({ j \in 1..n :
                        sims[j] > sims[i] \/ (sims[j] = sims[i] /\ j < i) })
    IN  [r \in 1..n |-> CHOOSE i \in 1..n : pos(i) = r]

\* IndexFlatIP.search: descending inner product; the order among equal scores
\* is not specified, tieLow tells whether the lower index comes first
FaissRank(sims, tieLow) ==
    LET n == Len(sims)
        pos(i) == 1 + Cardinality({ j \in 1..n :
                        sims[j] > sims[i] \/
                        (sims[j] = sims[i] /\ (IF tieLow THEN j < i ELSE j > i)) })
    IN  [r \in 1..n |-> CHOOSE i \in 1..n : pos(i) = r]

\* the first k elements of seq: the loops break once len(results) >= k
Take(seq, k) == SubSeq(seq, 1, Min(k, Len(seq)))

\* main.py:148-181 create_embeddings: one row per document, stored in the
\* documents as well
EncodeDocs(model, docs) == [i \in 1..Len(docs) |-> Embed(model, docs[i].text)]
WithEmbeddings(docs, rows) ==
    [i \in 1..Len(docs) |-> [docs[i] EXCEPT !.embedding = rows[i]]]

\* main.py:195 faiss.normalize_L2(self.embeddings), in place
NormalizeRows(rows) == [i \in 1..Len(rows) |-> Normalize(rows[i])]

\* main.py:259-307 ArabicTafsirRAG.search, from the query embedding on
RagSearchResults(index, docs, qvec, k, author_filter, tieLow) ==
    LET sims == [i \in 1..Len(index) |-> Dot(qvec, index[i])]
        search_k == IF author_filter # "" THEN k * OVERFETCH ELSE k
        hits == Take(FaissRank(sims, tieLow), search_k)
        keep(i) == ~(author_filter # "" /\ docs[i].author # author_filter)
        kept == SelectSeq(hits, keep)
        row(i) == [idx |-> i, score |-> sims[i], author |-> docs[i].author,
                   surah |-> IntV(docs[i].surah_no), text |-> docs[i].text]
    IN  Take([h \in 1..Len(kept) |-> row(kept[h])], k)

\* search_index.py:78-83, the filter of TafsirSearchEngine.search; the mutant
\* tests the author with == where the code has !=
EngineKeepsInverted(entry, author, surah) ==
    /\ ~(author # "" /\ Lower(entry.author) = Lower(author))
    /\ ~(Truthy(surah) /\ entry.surah # surah)

EngineKeeps(entry, author, surah) ==
    /\ ~(author # "" /\ Lower(entry.author) # Lower(author))
    /\ ~(Truthy(surah) /\ entry.surah # surah)

\* search_index.py:68-89 TafsirSearchEngine.search
EngineSearchResults(ents, rows, query, top_k, author, surah) ==
    LET query_ar == TranslateText(query)
        qe == Embed(MODEL_DISTILUSE, query_ar)
        sims == [i \in 1..Len(rows) |-> Cosine(qe, rows[i])]
        order == StableRank(sims)
        keep(i) == EngineKeeps(ents[i], author, surah)
        kept == SelectSeq(order, keep)
        row(i) == [idx |-> i, score |-> sims[i], author |-> ents[i].author,
                   surah |-> ents[i].surah, text |-> ents[i].text]
    IN  Take([h \in 1..Len(kept) |-> row(kept[h])], top_k)

\* qdrant_utils.py:32-50 search_tafsir: the conditions are sent only for truthy
\* arguments; Qdrant matches payload values exactly and returns the top_k
\* nearest points among those that match
QdrantSearchResults(points, qvec, top_k, author, surah) ==
    LET sims == [i \in 1..Len(points) |-> Cosine(qvec, points[i].vector)]
        keep(i) == /\ (author # "" => points[i].author = author)
                   /\ (Truthy(surah) => points[i].surah = surah)
        kept == SelectSeq(StableRank(sims), keep)
        row(i) == [idx |-> i, score |-> sims[i], author |-> points[i].author,
                   surah |-> points[i].surah, text |-> points[i].tafsir_text]
    IN  Take([h \in 1..Len(kept) |-> row(kept[h])], top_k)

\* A corpus: passages of one prolific author, of a second author and of a
\* directory whose name differs from the second only in letter case.
TextAt(j) == PTexts[((j - 1) % Len(PTexts)) + 1]
Passage(a, s, y, t) == [author |-> a, surah |-> s, ayah |-> y, text |-> t]
BigBlock(n, t) == [j \in 1..n |-> Passage("qurtubi", 1, j, t)]
SmallBlock(n, j0) == [j \in 1..n |-> Passage("ibn-katheer", j, 1, TextAt(j0 + j))]
CaseBlock(n) == [j \in 1..n |-> Passage("Ibn-Katheer", 1, 5, "t1")]

Corpora ==
    { c \in UNION { { BigBlock(nb, tb) \o SmallBlock(ns, j0) \o CaseBlock(nc),
                      CaseBlock(nc) \o SmallBlock(ns, j0) \o BigBlock(nb, tb) } :
                    <<nb, tb, ns, j0, nc>> \in
                        (0..MaxBig) \X {"t1", "t3"} \X (0..MaxSmall)
                            \X (0..1) \X (0..1) } :
        Len(c) > 0 }

\* main.py:116-122: a TafsirDocument per ayah text file
DocOf(p) == [surah_no |-> p.surah, ayah_no |-> p.ayah, author |-> p.author,
             text |-> p.text, embedding |-> <<>>]
\* search_index.py:33-41: an entry per consolidated passage
EntryOf(p) == [text |-> p.text, author |-> p.author, surah |-> IntV(p.surah),
               ayah_range |-> <<p.ayah, p.ayah>>]
\* bulk_ingest.py:41-48: the payload names the surah by the file name, a string
PointOf(p) == [author |-> p.author, surah |-> StrV(p.surah),
               ayah_range |-> <<p.ayah, p.ayah>>, tafsir_text |-> p.text,
               vector |-> Embed(MODEL_DISTILUSE, p.text)]

MapSeq(seq, Op(_)) == [i \in 1..Len(seq) |-> Op(seq[i])]

NoReq == [engine |-> "none", query |-> "", k |-> 0, author |-> "", surah |-> PyNone]

NoKey == [kind |-> "none", author |-> "", surah |-> 0, ayah |-> <<>>, lang |-> <<>>]
NoRet == [key |-> NoKey, result |-> Miss]
IdleProc == [pc |-> "idle", key |-> NoKey, buf |-> <<>>, off |-> 0]

SearchIdle == req = NoReq /\ results = <<>>

\* a snapshot file: absent, partially written, or complete; gen is history, the
\* number of the save that wrote it
NoFile == [st |-> "absent", gen |-> 0, data |-> <<>>]
Partial(g) == [st |-> "partial", gen |-> g, data |-> <<>>]
File(g, data) == [st |-> "ok", gen |-> g, data |-> data]
EmptyDisk == [faiss |-> NoFile, docs |-> NoFile, meta |-> NoFile,
              entries |-> NoFile, emb |-> NoFile]
NotLoaded == [ret |-> "none", seen |-> EmptyDisk]

\* no snapshot on disk and no process running
LifeIdle ==
    /\ corpus = <<>> /\ disk = EmptyDisk /\ program = "none" /\ pc = "off"
    /\ runs = 0 /\ saves = 0 /\ loaded = NotLoaded /\ outcome = "none"

\* no point lookup, no corpus load and no consolidation has been made
ExtIdle ==
    /\ found = [author |-> "", surah |-> PyNone, ayah |-> PyNone, hit |-> FALSE, text |-> ""]
    /\ raw = <<>> /\ loads = <<>>
    /\ metadata = <<>> /\ ayah_texts = <<>> /\ consolidated = [done |-> FALSE, list |-> <<>>]

\* no process has built or loaded an index
NoIndex ==
    /\ model_name = MODEL_MINILM
    /\ documents = <<>> /\ embeddings = NoEmb /\ faiss_index = None
    /\ entries = <<>> /\ eng_embeddings = None
    /\ collection = <<>>
    /\ SearchIdle

CacheInit ==
    /\ fs = << >>
    /\ ret = NoRet
    /\ lastPut = << >>
    /\ puts = 0
    /\ procs = [p \in 1..NumProcs |-> IdleProc]
    /\ written = << >>
    /\ NoIndex
    /\ LifeIdle
    /\ ExtIdle

\* put: save_translation_to_cache(author, surah, ayah, lang_code, translated_text)
SaveTranslation(k, text) ==
    /\ k \in TranslationKeys
    /\ puts < MaxPuts
    /\ puts' = puts + 1
    /\ fs' = SaveToCache(fs, k, text)
    /\ lastPut' = WriteFile(lastPut, k, text)
    /\ ret' = NoRet
    /\ UNCHANGED <<procs, written>>
    /\ UNCHANGED <<indexVars, lifeVars, extVars>>

\* put: save_reflection_to_cache(author, surah, from_ayah, to_ayah, lang, reflection)
SaveReflection(k, text) ==
    /\ k \in ReflectionKeys
    /\ puts < MaxPuts
    /\ puts' = puts + 1
    /\ fs' = SaveToCache(fs, k, text)
    /\ lastPut' = WriteFile(lastPut, k, text)
    /\ ret' = NoRet
    /\ UNCHANGED <<procs, written>>
    /\ UNCHANGED <<indexVars, lifeVars, extVars>>

\* get: load_cached_translation(author, surah, ayah, lang_code)
LoadTranslation(k) ==
    /\ k \in TranslationKeys
    /\ ret' = [key |-> k, result |-> LoadCached(fs, k)]
    /\ UNCHANGED <<fs, lastPut, puts, procs, written>>
    /\ UNCHANGED <<indexVars, lifeVars, extVars>>

\* get: load_cached_reflection(author, surah, from_ayah, to_ayah, lang)
LoadReflection(k) ==
    /\ k \in ReflectionKeys
    /\ ret' = [key |-> k, result |-> LoadCached(fs, k)]
    /\ UNCHANGED <<fs, lastPut, puts, procs, written>>
    /\ UNCHANGED <<indexVars, lifeVars, extVars>>

CacheNext ==
    \/ \E k \in TranslationKeys, t \in Texts : SaveTranslation(k, t)
    \/ \E k \in ReflectionKeys, t \in Texts : SaveReflection(k, t)
    \/ \E k \in TranslationKeys : LoadTranslation(k)
    \/ \E k \in ReflectionKeys : LoadReflection(k)

\* Sequential use of the cache: every put and get is one whole call.
SpecCache == CacheInit /\ [][CacheNext]_vars

-----------------------------------------------------------------------------
(* Concurrent requests on the cache. open(path, "w") truncates the file in   *)
(* place; the buffered writer then flushes its data to the file in chunks at *)
(* the writer's own offset, the last chunk when the with-block closes it.    *)

\* write(2) of data at offset off: a hole left by a truncation reads as NUL
WriteAt(content, off, data) ==
    LET padded == IF Len(content) < off
                  THEN content \o [i \in 1..(off - Len(content)) |-> "NUL"]
                  ELSE content
    IN  SubSeq(padded, 1, off) \o data
            \o SubSeq(padded, off + Len(data) + 1, Len(padded))

AddWritten(w, path, text) ==
    [p \in (DOMAIN w) \cup {path} |->
        IF p = path THEN (IF path \in DOMAIN w THEN w[path] ELSE {}) \cup {text}
        ELSE w[p]]

\* utils.py:19-21 / :33-36: makedirs, then open(path, "w") truncates or creates
ConcOpenWrite(p, k, text) ==
    /\ procs[p].pc = "idle"
    /\ puts < MaxPuts
    /\ puts' = puts + 1
    /\ fs' = WriteFile(fs, PathOf(k), <<>>)
    /\ procs' = [procs EXCEPT ![p] = [pc |-> "writing", key |-> k,
                                      buf |-> JsonDump(FieldOf(k), text), off |-> 0]]
    /\ written' = AddWritten(written, PathOf(k), text)
    /\ UNCHANGED <<ret, lastPut>>
    /\ UNCHANGED <<indexVars, lifeVars, extVars>>

\* utils.py:22 / :37: json.dump fills the buffer, a full buffer is written out
ConcFlush(p) ==
    /\ procs[p].pc = "writing"
    /\ Len(procs[p].buf) > ChunkLen
    /\ LET path == PathOf(procs[p].key)
           data == SubSeq(procs[p].buf, 1, ChunkLen)
       IN  /\ fs' = [fs EXCEPT ![path] = WriteAt(fs[path], procs[p].off, data)]
           /\ procs' = [procs EXCEPT ![p].buf = SubSeq(@, ChunkLen + 1, Len(@)),
                                     ![p].off = @ + ChunkLen]
    /\ UNCHANGED <<ret, lastPut, puts, written>>
    /\ UNCHANGED <<indexVars, lifeVars, extVars>>

\* utils.py:21-22 / :36-37: leaving the with-block flushes the rest and closes
ConcClose(p) ==
    /\ procs[p].pc = "writing"
    /\ Len(procs[p].buf) <= ChunkLen
    /\ LET path == PathOf(procs[p].key)
       IN  fs' = [fs EXCEPT ![path] = WriteAt(fs[path], procs[p].off, procs[p].buf)]
    /\ procs' = [procs EXCEPT ![p] = IdleProc]
    /\ UNCHANGED <<ret, lastPut, puts, written>>
    /\ UNCHANGED <<indexVars, lifeVars, extVars>>

\* utils.py:13 / :27: os.path.exists(path); a missing file is a Miss
ConcExists(p, k) ==
    /\ procs[p].pc = "idle"
    /\ IF PathOf(k) \in DOMAIN fs
       THEN /\ procs' = [procs EXCEPT ![p] = [pc |-> "reading", key |-> k,
                                              buf |-> <<>>, off |-> 0]]
            /\ ret' = NoRet
       ELSE /\ ret' = [key |-> k, result |-> Miss]
            /\ UNCHANGED procs
    /\ UNCHANGED <<fs, lastPut, puts, written>>
    /\ UNCHANGED <<indexVars, lifeVars, extVars>>

\* utils.py:14-15 / :28-29: open(path, "r") and json.load(f).get(field)
ConcRead(p) ==
    /\ procs[p].pc = "reading"
    /\ ret' = [key |-> procs[p].key,
               result |-> JsonLoadGet(fs[PathOf(procs[p].key)], FieldOf(procs[p].key))]
    /\ procs' = [procs EXCEPT ![p] = IdleProc]
    /\ UNCHANGED <<fs, lastPut, puts, written>>
    /\ UNCHANGED <<indexVars, lifeVars, extVars>>

ConcNext ==
    \/ \E p \in 1..NumProcs, k \in Keys, t \in Texts : ConcOpenWrite(p, k, t)
    \/ \E p \in 1..NumProcs : ConcFlush(p)
    \/ \E p \in 1..NumProcs : ConcClose(p)
    \/ \E p \in 1..NumProcs, k \in Keys : ConcExists(p, k)
    \/ \E p \in 1..NumProcs : ConcRead(p)

\* Concurrent requests: each cache call is interleaved step by step.
SpecCacheConc == CacheInit /\ [][ConcNext]_vars

-----------------------------------------------------------------------------
(* Searching a built index. The initial states are the indexes the build     *)
(* paths produce from a corpus: load_all_data, create_embeddings and         *)
(* build_faiss_index (main.py), _build_index (search_index.py) and           *)
(* process_tafsir_data (bulk_ingest.py).                                     *)

CacheIdle ==
    /\ fs = << >> /\ ret = NoRet /\ lastPut = << >> /\ puts = 0
    /\ procs = [p \in 1..NumProcs |-> IdleProc] /\ written = << >>

SearchInit ==
    /\ CacheIdle
    /\ ExtIdle
    /\ model_name = MODEL_MINILM
    /\ \E c \in Corpora :
        LET docs == MapSeq(c, DocOf)
            rows == NormalizeRows(EncodeDocs(MODEL_MINILM, docs))
        IN  /\ documents = WithEmbeddings(docs, rows)
            /\ embeddings = Emb(rows, TRUE)
            /\ faiss_index = Some(rows)
            /\ entries = MapSeq(c, EntryOf)
            /\ eng_embeddings = Some(EncodeDocs(MODEL_DISTILUSE, MapSeq(c, EntryOf)))
            /\ collection = MapSeq(c, PointOf)
    /\ SearchIdle
    /\ LifeIdle

AuthorArgs == AuthorNames \cup {""}
SurahArgs == {PyNone, IntV(0), IntV(1), StrV(1)}

\* rag.search(query, k, author_filter)
RagSearch(query, k, author_filter, tieLow) ==
    /\ req = NoReq
    /\ faiss_index.some
    /\ req' = [engine |-> "rag", query |-> query, k |-> k,
               author |-> author_filter, surah |-> PyNone]
    /\ results' = RagSearchResults(faiss_index.rows, documents,
                                   Normalize(Embed(model_name, query)),
                                   k, author_filter, tieLow)
    /\ UNCHANGED <<extVars, cacheVars, ragVars, engVars, collection, lifeVars>>

\* engine.search(query, top_k, author, surah)
EngineSearch(query, top_k, author, surah) ==
    /\ req = NoReq
    /\ eng_embeddings.some
    /\ req' = [engine |-> "engine", query |-> query, k |-> top_k,
               author |-> author, surah |-> surah]
    /\ results' = EngineSearchResults(entries, eng_embeddings.rows, query, top_k,
                                      author, surah)
    /\ UNCHANGED <<extVars, cacheVars, ragVars, engVars, collection, lifeVars>>

\* search_tafsir(get_embedding(query), top_k, author, surah)
QdrantSearch(query, top_k, author, surah) ==
    /\ req = NoReq
    /\ req' = [engine |-> "qdrant", query |-> query, k |-> top_k,
               author |-> author, surah |-> surah]
    /\ results' = QdrantSearchResults(collection, Embed(MODEL_DISTILUSE, query),
                                      top_k, author, surah)
    /\ UNCHANGED <<extVars, cacheVars, ragVars, engVars, collection, lifeVars>>

\* the caller has taken the results; the next request starts afresh
SearchReturn ==
    /\ req # NoReq
    /\ req' = NoReq
    /\ results' = <<>>
    /\ UNCHANGED <<extVars, cacheVars, ragVars, engVars, collection, lifeVars>>

SearchNext ==
    \/ \E q \in Queries, k \in 1..MaxK, a \in AuthorArgs, tl \in BOOLEAN :
          RagSearch(q, k, a, tl)
    \/ \E q \in Queries, k \in 1..MaxK, a \in AuthorArgs, s \in SurahArgs :
          EngineSearch(q, k, a, s)
    \/ \E q \in Queries, k \in 1..MaxK, a \in AuthorArgs, s \in SurahArgs :
          QdrantSearch(q, k, a, s)
    \/ SearchReturn

SpecSearch == SearchInit /\ [][SearchNext]_vars

-----------------------------------------------------------------------------
(* Building, saving and loading the index. A process runs one of three       *)
(* programs: "api", a caller of the ArabicTafsirRAG methods in any order;    *)
(* "main", the script under __main__ in main.py; "engine", the constructor   *)
(* of TafsirSearchEngine followed by searches. A process can stop at any     *)
(* point; the files it wrote stay.                                           *)

Models == {MODEL_MINILM, MODEL_DISTILUSE}

P1 == Passage("ibn-katheer", 1, 1, "t2")
P2 == Passage("qurtubi", 1, 1, "t3")
LifeCorpora == {<<>>, <<P1>>, <<P1, P2>>}

\* main.py:136-146 load_all_data: the documents found are appended
LoadAllData(docs, corp) == docs \o MapSeq(corp, DocOf)

\* main.py:183-200 build_faiss_index: the rows are normalised in place, which
\* the documents whose embedding is a view of a row see as well
BuildDocuments(docs, emb) ==
    IF emb.views
    THEN [i \in 1..Len(docs) |->
            IF i <= Len(emb.rows) /\ docs[i].embedding # <<>>
            THEN [docs[i] EXCEPT !.embedding = Normalize(emb.rows[i])]
            ELSE docs[i]]
    ELSE docs

\* main.py:227-257 load_index: a file that exists is read, a partial file
\* raises; np.array over embeddings of which some are None raises or not
\* (raggedRaises) depending on the numpy version
LoadIndexResult(d, docs0, emb0, fi0, raggedRaises) ==
    LET fi1 == IF d.faiss.st = "ok" THEN Some(d.faiss.data) ELSE fi0
        docs1 == IF d.docs.st = "ok" THEN d.docs.data ELSE docs0
        rows == [i \in 1..Len(docs1) |-> docs1[i].embedding]
        ragged == \E i \in 1..Len(rows) : rows[i] = <<>>
        out(r, ds, e, f) ==
            [ret |-> r, documents |-> ds, embeddings |-> e, faiss_index |-> f]
    IN  IF d.faiss.st = "partial" THEN out(FALSE, docs0, emb0, fi0)
        ELSE IF d.docs.st = "partial" THEN out(FALSE, docs0, emb0, fi1)
        ELSE IF Len(docs1) > 0 /\ docs1[1].embedding # <<>>
             THEN IF ragged /\ raggedRaises
                  THEN out(FALSE, docs1, emb0, fi1)
                  ELSE out(TRUE, docs1, Emb(rows, FALSE), fi1)
        ELSE out(TRUE, docs1, emb0, fi1)

\* main.py:215-220 the metadata save_index writes (created_at left out)
Metadata(model, docs) == [model_name |-> model, num_documents |-> Len(docs)]

\* main.py:271-305: "not_built" is the ValueError of :272, "index_error" the
\* IndexError of self.documents[idx]
RagSearchOutcome(fi, docs, qvec, k, tieLow) ==
    IF ~fi.some THEN "not_built"
    ELSE LET sims == [i \in 1..Len(fi.rows) |-> Dot(qvec, fi.rows[i])]
             hits == Take(FaissRank(sims, tieLow), k)
         IN  IF \E h \in 1..Len(hits) : hits[h] > Len(docs)
             THEN "index_error" ELSE "served"

\* a load that never finds the snapshot
EngineLoadNeverHits(d, ents0, emb0) ==
    [ret |-> FALSE, entries |-> ents0, embeddings |-> emb0]

\* search_index.py:54-66 _load_index_from_cache
EngineLoadResult(d, ents0, emb0) ==
    IF d.entries.st = "absent" \/ d.emb.st = "absent"
    THEN [ret |-> FALSE, entries |-> ents0, embeddings |-> emb0]
    ELSE IF d.entries.st = "partial"
    THEN [ret |-> FALSE, entries |-> ents0, embeddings |-> emb0]
    ELSE IF d.emb.st = "partial"
    THEN [ret |-> FALSE, entries |-> d.entries.data, embeddings |-> emb0]
    ELSE [ret |-> TRUE, entries |-> d.entries.data, embeddings |-> Some(d.emb.data)]

\* search_index.py:68-89: cosine_similarity raises on an empty array ("empty"),
\* self.entries[idx] raises when there are more rows than entries
EngineSearchOutcome(ents, emb, query, top_k) ==
    IF ~emb.some \/ Len(emb.rows) = 0 THEN "empty"
    ELSE LET qe == Embed(MODEL_DISTILUSE, TranslateText(query))
             sims == [i \in 1..Len(emb.rows) |-> Cosine(qe, emb.rows[i])]
             hits == Take(StableRank(sims), top_k)
         IN  IF \E h \in 1..Len(hits) : hits[h] > Len(ents)
             THEN "index_error" ELSE "served"

IndexInit ==
    /\ CacheIdle
    /\ ExtIdle
    /\ NoIndex
    /\ corpus \in LifeCorpora
    /\ disk = EmptyDisk /\ program = "none" /\ pc = "off"
    /\ runs = 0 /\ saves = 0 /\ loaded = NotLoaded /\ outcome = "none"

\* A process starts (main.py:41-74 with model_name m, or search_index.py:10-16);
\* the one before it, if any, has ended or was killed wherever it stood.
Restart(prog, m) ==
    /\ runs < MaxRuns
    /\ program \in {"api", "main"} => prog \in {"api", "main"}
    /\ program = "engine" => prog = "engine"
    /\ runs' = runs + 1
    /\ program' = prog
    /\ pc' = CASE prog = "api" -> "idle" [] prog = "main" -> "m_load"
               [] OTHER -> "e_load"
    /\ model_name' = IF prog = "engine" THEN model_name ELSE m
    /\ documents' = <<>> /\ embeddings' = NoEmb /\ faiss_index' = None
    /\ entries' = <<>> /\ eng_embeddings' = None
    /\ req' = NoReq /\ results' = <<>>
    /\ loaded' = NotLoaded /\ outcome' = "none"
    /\ UNCHANGED <<extVars, cacheVars, collection, corpus, disk, saves>>

AtApi == program = "api" /\ pc = "idle"

\* rag.load_all_data()
ApiLoadAllData ==
    /\ AtApi
    /\ Len(documents) + Len(corpus) <= MaxDocs
    /\ documents' = LoadAllData(documents, corpus)
    /\ loaded' = NotLoaded /\ outcome' = "none"
    /\ UNCHANGED <<extVars, cacheVars, model_name, embeddings, faiss_index, engVars, collection,
                   searchVars, corpus, disk, program, pc, runs, saves>>

\* rag.create_embeddings(); with no documents it raises and changes nothing
ApiCreateEmbeddings ==
    /\ AtApi
    /\ Len(documents) > 0
    /\ LET rows == EncodeDocs(model_name, documents)
       IN  /\ embeddings' = Emb(rows, TRUE)
           /\ documents' = WithEmbeddings(documents, rows)
    /\ loaded' = NotLoaded /\ outcome' = "none"
    /\ UNCHANGED <<extVars, cacheVars, model_name, faiss_index, engVars, collection,
                   searchVars, corpus, disk, program, pc, runs, saves>>

RowsValid(emb) == emb.some /\ \A i \in 1..Len(emb.rows) : emb.rows[i] # <<>>

\* rag.build_faiss_index(); without embeddings it raises and changes nothing
ApiBuildFaissIndex ==
    /\ AtApi
    /\ RowsValid(embeddings)
    /\ embeddings' = Emb(NormalizeRows(embeddings.rows), embeddings.views)
    /\ faiss_index' = Some(NormalizeRows(embeddings.rows))
    /\ documents' = BuildDocuments(documents, embeddings)
    /\ loaded' = NotLoaded /\ outcome' = "none"
    /\ UNCHANGED <<extVars, cacheVars, model_name, engVars, collection, searchVars,
                   corpus, disk, program, pc, runs, saves>>

\* rag.load_index()
ApiLoadIndex(raggedRaises) ==
    /\ AtApi
    /\ LET r == LoadIndexResult(disk, documents, embeddings, faiss_index, raggedRaises)
       IN  /\ documents' = r.documents
           /\ embeddings' = r.embeddings
           /\ faiss_index' = r.faiss_index
           /\ loaded' = [ret |-> IF r.ret THEN "true" ELSE "false", seen |-> disk]
    /\ outcome' = "none"
    /\ UNCHANGED <<extVars, cacheVars, model_name, engVars, collection, searchVars,
                   corpus, disk, program, pc, runs, saves>>

\* rag.search("q1", k): how the call ends
ApiSearch(k, tieLow) ==
    /\ AtApi
    /\ outcome' = RagSearchOutcome(faiss_index, documents,
                                   Normalize(Embed(model_name, "q1")), k, tieLow)
    /\ loaded' = NotLoaded
    /\ UNCHANGED <<extVars, cacheVars, ragVars, engVars, collection, searchVars,
                   corpus, disk, program, pc, runs, saves>>

\* rag.save_index() is entered (main.py:202-207)
ApiSaveIndex ==
    /\ AtApi
    /\ saves < MaxSaves
    /\ saves' = saves + 1
    /\ pc' = IF faiss_index.some THEN "save_faiss" ELSE "save_docs"
    /\ loaded' = NotLoaded /\ outcome' = "none"
    /\ UNCHANGED <<extVars, cacheVars, ragVars, engVars, collection, searchVars,
                   corpus, disk, program, runs>>

SaveStep(from, to, file, content) ==
    /\ pc = from
    /\ pc' = to
    /\ disk' = [disk EXCEPT ![file] = content]
    /\ UNCHANGED <<extVars, cacheVars, ragVars, engVars, collection, searchVars,
                   corpus, program, runs, saves, loaded, outcome>>

\* main.py:208 faiss.write_index: the file is created or truncated, then written
SaveFaissOpen == SaveStep("save_faiss", "save_faiss_w", "faiss", Partial(saves))
SaveFaissWrite ==
    SaveStep("save_faiss_w", "save_docs", "faiss", File(saves, faiss_index.rows))
\* main.py:211-212 open(documents.pkl, 'wb'), pickle.dump
SaveDocsOpen == SaveStep("save_docs", "save_docs_w", "docs", Partial(saves))
SaveDocsWrite == SaveStep("save_docs_w", "save_meta", "docs", File(saves, documents))
\* main.py:215-223; embeddings.shape[1] raises on an array of ragged rows
SaveMetaOpen ==
    /\ ~embeddings.some \/ RowsValid(embeddings)
    /\ SaveStep("save_meta", "save_meta_w", "meta", Partial(saves))
SaveMetaRaises ==
    /\ pc = "save_meta"
    /\ embeddings.some /\ ~RowsValid(embeddings)
    /\ pc' = IF program = "api" THEN "idle" ELSE "done"
    /\ UNCHANGED <<extVars, cacheVars, ragVars, engVars, collection, searchVars,
                   corpus, disk, program, runs, saves, loaded, outcome>>
SaveMetaWrite ==
    SaveStep("save_meta_w", IF program = "api" THEN "idle" ELSE "m_search", "meta",
             File(saves, <<Metadata(model_name, documents)>>))

\* main.py:378 if not rag.load_index()
MainLoadIndex(raggedRaises) ==
    /\ program = "main" /\ pc = "m_load"
    /\ LET r == LoadIndexResult(disk, documents, embeddings, faiss_index, raggedRaises)
       IN  /\ documents' = r.documents
           /\ embeddings' = r.embeddings
           /\ faiss_index' = r.faiss_index
           /\ loaded' = [ret |-> IF r.ret THEN "true" ELSE "false", seen |-> disk]
           /\ pc' = IF r.ret THEN "m_search" ELSE "m_load_data"
    /\ UNCHANGED <<extVars, cacheVars, model_name, engVars, collection, searchVars,
                   corpus, disk, program, runs, saves, outcome>>

\* main.py:382-386 rag.load_all_data(); exit(1) when nothing was loaded
MainLoadAllData ==
    /\ program = "main" /\ pc = "m_load_data"
    /\ documents' = LoadAllData(documents, corpus)
    /\ pc' = IF Len(documents') = 0 THEN "done" ELSE "m_embed"
    /\ UNCHANGED <<extVars, cacheVars, model_name, embeddings, faiss_index, engVars, collection,
                   searchVars, corpus, disk, program, runs, saves, loaded, outcome>>

\* main.py:389 rag.create_embeddings()
MainCreateEmbeddings ==
    /\ program = "main" /\ pc = "m_embed"
    /\ LET rows == EncodeDocs(model_name, documents)
       IN  /\ embeddings' = Emb(rows, TRUE)
           /\ documents' = WithEmbeddings(documents, rows)
    /\ pc' = "m_build"
    /\ UNCHANGED <<extVars, cacheVars, model_name, faiss_index, engVars, collection,
                   searchVars, corpus, disk, program, runs, saves, loaded, outcome>>

\* main.py:392 rag.build_faiss_index()
MainBuildFaissIndex ==
    /\ program = "main" /\ pc = "m_build"
    /\ embeddings' = Emb(NormalizeRows(embeddings.rows), embeddings.views)
    /\ faiss_index' = Some(NormalizeRows(embeddings.rows))
    /\ documents' = BuildDocuments(documents, embeddings)
    /\ pc' = "m_save"
    /\ UNCHANGED <<extVars, cacheVars, model_name, engVars, collection,
                   searchVars, corpus, disk, program, runs, saves, loaded, outcome>>

\* main.py:395 rag.save_index() is entered
MainSaveIndex ==
    /\ program = "main" /\ pc = "m_save"
    /\ saves' = saves + 1
    /\ pc' = IF faiss_index.some THEN "save_faiss" ELSE "save_docs"
    /\ UNCHANGED <<extVars, cacheVars, ragVars, engVars, collection, searchVars,
                   corpus, disk, program, runs, loaded, outcome>>

\* main.py:433 results = rag.search(query, k=3); an exception ends the script
MainSearch(tieLow) ==
    /\ program = "main" /\ pc = "m_search"
    /\ outcome' = RagSearchOutcome(faiss_index, documents,
                                   Normalize(Embed(model_name, "q1")), MAIN_K, tieLow)
    /\ pc' = "done"
    /\ UNCHANGED <<extVars, cacheVars, ragVars, engVars, collection, searchVars,
                   corpus, disk, program, runs, saves, loaded>>

\* search_index.py:17 if self._load_index_from_cache()
EngineLoad ==
    /\ program = "engine" /\ pc = "e_load"
    /\ LET r == EngineLoadResult(disk, entries, eng_embeddings)
       IN  /\ entries' = r.entries
           /\ eng_embeddings' = r.embeddings
           /\ loaded' = [ret |-> IF r.ret THEN "true" ELSE "false", seen |-> disk]
           /\ pc' = IF r.ret THEN "e_ready" ELSE "e_build"
    /\ UNCHANGED <<extVars, cacheVars, ragVars, collection, searchVars,
                   corpus, disk, program, runs, saves, outcome>>

\* search_index.py:24-46 _build_index: the entries read are appended, all the
\* entries are embedded
EngineBuild ==
    /\ program = "engine" /\ pc = "e_build"
    /\ entries' = entries \o MapSeq(corpus, EntryOf)
    /\ eng_embeddings' = Some(EncodeDocs(MODEL_DISTILUSE, entries'))
    /\ saves' = saves + 1
    /\ pc' = "e_save_entries"
    /\ UNCHANGED <<extVars, cacheVars, ragVars, collection, searchVars,
                   corpus, disk, program, runs, loaded, outcome>>

\* search_index.py:48-52 _save_index_to_cache
EngineSaveEntriesOpen ==
    SaveStep("e_save_entries", "e_save_entries_w", "entries", Partial(saves))
EngineSaveEntriesWrite ==
    SaveStep("e_save_entries_w", "e_save_emb", "entries", File(saves, entries))
EngineSaveEmbOpen == SaveStep("e_save_emb", "e_save_emb_w", "emb", Partial(saves))
EngineSaveEmbWrite ==
    SaveStep("e_save_emb_w", "e_ready", "emb", File(saves, eng_embeddings.rows))

\* engine.search("q1", top_k) on the constructed engine: how the call ends
EngineSearchCall(top_k) ==
    /\ program = "engine" /\ pc = "e_ready"
    /\ outcome' = EngineSearchOutcome(entries, eng_embeddings, "q1", top_k)
    /\ UNCHANGED <<extVars, cacheVars, ragVars, engVars, collection, searchVars,
                   corpus, disk, program, pc, runs, saves, loaded>>

IndexNext ==
    \/ \E prog \in {"api", "main", "engine"}, m \in Models : Restart(prog, m)
    \/ ApiLoadAllData
    \/ ApiCreateEmbeddings
    \/ ApiBuildFaissIndex
    \/ \E rr \in BOOLEAN : ApiLoadIndex(rr)
    \/ \E k \in 1..MaxK, tl \in BOOLEAN : ApiSearch(k, tl)
    \/ ApiSaveIndex
    \/ SaveFaissOpen
    \/ SaveFaissWrite
    \/ SaveDocsOpen
    \/ SaveDocsWrite
    \/ SaveMetaOpen
    \/ SaveMetaRaises
    \/ SaveMetaWrite
    \/ \E rr \in BOOLEAN : MainLoadIndex(rr)
    \/ MainLoadAllData
    \/ MainCreateEmbeddings
    \/ MainBuildFaissIndex
    \/ MainSaveIndex
    \/ \E tl \in BOOLEAN : MainSearch(tl)
    \/ EngineLoad
    \/ EngineBuild
    \/ EngineSaveEntriesOpen
    \/ EngineSaveEntriesWrite
    \/ EngineSaveEmbOpen
    \/ EngineSaveEmbWrite
    \/ \E k \in 1..MaxK : EngineSearchCall(k)

SpecIndex == IndexInit /\ [][IndexNext]_vars

-----------------------------------------------------------------------------
(* Point lookup: bulk_ingest.process_tafsir_data fills the Qdrant collection *)
(* from the consolidated surah files, qdrant_utils.search_text looks a       *)
(* passage up by author, surah and ayah.                                     *)

LookupIdle == raw = <<>> /\ loads = <<>>
PrepIdle == metadata = <<>> /\ ayah_texts = <<>> /\ consolidated = [done |-> FALSE, list |-> <<>>]
NotFound == [author |-> "", surah |-> PyNone, ayah |-> PyNone, hit |-> FALSE, text |-> ""]

LookupAuthors == {"qurtubi", "ibn-katheer"}
AyahRanges == { r \in (1..MaxRangeAyah) \X (1..MaxRangeAyah) : r[1] <= r[2] }
Overlap(r1, r2) == r1[1] <= r2[2] /\ r2[1] <= r1[2]

\* an entry of output/<author>/<file>.json as process_tafsir_data reads it
ConsolidatedEntry(a, f, r, t) ==
    [author |-> a, file |-> f, ayah_range |-> r, tafsir_text |-> t]

\* the output directory: the entries of the surah files in the order they are
\* read; the ranges of one author and surah do not overlap; entry i has the
\* text TextAt(i), or no text
OutputDirs ==
    { dir \in UNION { [1..n -> { ConsolidatedEntry(a, 1, r, t) :
                                   a \in LookupAuthors, r \in AyahRanges,
                                   t \in {"", "t1", "t2", "t3"} }] :
                      n \in 0..MaxPoints } :
        /\ \A i \in 1..Len(dir) : dir[i].tafsir_text \in {"", TextAt(i)}
        /\ \A i, j \in 1..Len(dir) :
              (i < j /\ dir[i].author = dir[j].author)
                  => ~Overlap(dir[i].ayah_range, dir[j].ayah_range) }

\* bulk_ingest.py:31-48: an entry without text is skipped; the payload names
\* the surah by the file name, a string
IngestedPoints(dir) ==
    LET kept == SelectSeq(dir, LAMBDA e : e.tafsir_text # "")
    IN  [i \in 1..Len(kept) |->
            [author |-> kept[i].author, surah |-> StrV(kept[i].file),
             ayah_range |-> kept[i].ayah_range, tafsir_text |-> kept[i].tafsir_text,
             vector |-> Embed(MODEL_DISTILUSE, kept[i].tafsir_text)]]

\* Qdrant MatchValue: the stored value equals the given one, type included
MatchValue(stored, value) == stored = value
\* Qdrant Range on a payload field that holds an array: some element of the
\* array lies within [gte, lte]
RangeMatch(arr, gte, lte) == \E i \in 1..Len(arr) : gte <= arr[i] /\ arr[i] <= lte

\* qdrant_utils.py:64-80: the points client.scroll returns
ScrollMatches(points, author, surah, ayah) ==
    { i \in 1..Len(points) :
        /\ MatchValue(points[i].author, author)
        /\ MatchValue(points[i].surah, surah)
        /\ RangeMatch(points[i].ayah_range, ayah, ayah) }

\* qdrant_utils.py:82-86: the text of the last point returned, None if there is
\* none; scroll orders the points by id, a random uuid (qdrant_utils.py:29)
SearchTextResults(points, author, surah, ayah) ==
    LET m == ScrollMatches(points, author, surah, ayah)
    IN  IF m = {} THEN {[hit |-> FALSE, text |-> ""]}
        ELSE {[hit |-> TRUE, text |-> points[i].tafsir_text] : i \in m}

LookupInit ==
    /\ CacheIdle /\ NoIndex /\ LifeIdle
    /\ found = NotFound
    /\ raw \in OutputDirs
    /\ loads = <<>>
    /\ PrepIdle

\* python bulk_ingest.py, run once on an empty collection
ProcessTafsirData ==
    /\ loads = <<>>
    /\ loads' = <<"ingested">>
    /\ collection' = collection \o IngestedPoints(raw)
    /\ found' = NotFound
    /\ UNCHANGED <<cacheVars, ragVars, engVars, searchVars, lifeVars, raw, prepVars>>

\* search_text(author, surah, ayah)
SearchText(author, surah, ayah) ==
    /\ loads # <<>>
    /\ \E r \in SearchTextResults(collection, author, surah, ayah) :
          found' = [author |-> author, surah |-> surah, ayah |-> IntV(ayah),
                    hit |-> r.hit, text |-> r.text]
    /\ UNCHANGED <<cacheVars, indexVars, lifeVars, loadVars, prepVars>>

LookupNext ==
    \/ ProcessTafsirData
    \/ \E a \in LookupAuthors, s \in {IntV(1), StrV(1), StrV(2)},
          y \in 1..MaxRangeAyah + 1 : SearchText(a, s, y)

SpecLookup == LookupInit /\ [][LookupNext]_vars

-----------------------------------------------------------------------------
(* Loading the corpus: TafsirSearchEngine._build_index reads the consolidated *)
(* files output/<author>/<surah>.json, ArabicTafsirRAG.load_all_data reads   *)
(* data/<author>/<surah>.json with the text files <surah>_<ayah>.txt. The    *)
(* file system hands the folders and files over in an order of its own.      *)

NonNumeric == [t |-> "text", n |-> 0]
FileStems == {IntV(1), IntV(2), NonNumeric}
\* an entry of a surah file ("output"), a text file of a surah ("data"):
\* "ok", "empty" (its text is empty or blank), "bad" (an entry without the key
\* tafsir_text, a text file whose name has no number for the ayah)
EntryKinds == {"ok", "empty", "bad"}
RawFile(a, stem, kinds) == [author |-> a, stem |-> stem, kinds |-> kinds]
RawFiles ==
    { RawFile(a, st, ks) : a \in LookupAuthors, st \in FileStems,
                           ks \in UNION { [1..n -> EntryKinds] : n \in 1..MaxEntries } }
RawDirs ==
    { [layout |-> l, files |-> F] :
        l \in {"output", "data"},
        F \in { G \in UNION { { { sel[i] : i \in 1..n } : sel \in [1..n -> RawFiles] } :
                                n \in 0..MaxFiles } :
                  \A f, g \in G : (f.author = g.author /\ f.stem = g.stem) => f = g } }

\* os.listdir / Path.iterdir / Path.glob: the files in some order, those of one
\* author folder together
Enumerations(F) ==
    { ord \in [1..Cardinality(F) -> F] :
        /\ \A i, j \in 1..Cardinality(F) : i # j => ord[i] # ord[j]
        /\ \A i, j, k \in 1..Cardinality(F) :
              (i < j /\ j < k /\ ord[i].author = ord[k].author)
                  => ord[j].author = ord[i].author }

Reverse(seq) == [i \in 1..Len(seq) |-> seq[Len(seq) + 1 - i]]
RECURSIVE Concat(_)
Concat(ss) == IF ss = <<>> THEN <<>> ELSE Head(ss) \o Concat(Tail(ss))

KindText(kind) == IF kind = "ok" THEN "t1" ELSE ""
LoadedPassage(f, i) ==
    Passage(f.author, f.stem.n, i, KindText(f.kinds[i]))

\* search_index.py:25-44: int(file name) and entry["tafsir_text"] are not
\* guarded, an exception leaves the constructor
EngineEntriesOfFile(f) == [i \in 1..Len(f.kinds) |-> LoadedPassage(f, i)]
BuildIndexLoad(ord) ==
    IF \E i \in 1..Len(ord) :
          \/ ord[i].stem.t # "int"
          \/ \E j \in 1..Len(ord[i].kinds) : ord[i].kinds[j] = "bad"
    THEN [loader |-> "engine", raised |-> TRUE, store |-> <<>>]
    ELSE [loader |-> "engine", raised |-> FALSE,
          store |-> Concat(MapSeq(ord, EngineEntriesOfFile))]

\* main.py:94-130 load_author_data: a file name that is not a number is skipped
\* (ValueError caught); globRev is the order glob returns the text files in
RagDocsOfFile(f, globRev) ==
    LET idx == IF globRev THEN Reverse([i \in 1..Len(f.kinds) |-> i])
               ELSE [i \in 1..Len(f.kinds) |-> i]
        kept == SelectSeq(idx, LAMBDA i : f.kinds[i] # "bad")
    IN  IF f.stem.t # "int" THEN <<>>
        ELSE [h \in 1..Len(kept) |-> LoadedPassage(f, kept[h])]
LoadAllDataLoad(ord, globRev) ==
    [loader |-> "rag", raised |-> FALSE,
     store |-> Concat([i \in 1..Len(ord) |-> RagDocsOfFile(ord[i], globRev)])]

LoadInit ==
    /\ CacheIdle /\ NoIndex /\ LifeIdle
    /\ found = NotFound
    /\ raw \in RawDirs
    /\ loads = <<>>
    /\ PrepIdle

\* TafsirSearchEngine(data_root) with no snapshot: _build_index reads the corpus
EngineBuildIndex(ord) ==
    /\ raw.layout = "output"
    /\ Len(loads) < MaxLoads
    /\ loads' = Append(loads, BuildIndexLoad(ord))
    /\ UNCHANGED <<cacheVars, indexVars, lifeVars, found, raw, prepVars>>

\* rag = ArabicTafsirRAG(data_path); rag.load_all_data()
RagLoadAllData(ord, globRev) ==
    /\ raw.layout = "data"
    /\ Len(loads) < MaxLoads
    /\ loads' = Append(loads, LoadAllDataLoad(ord, globRev))
    /\ UNCHANGED <<cacheVars, indexVars, lifeVars, found, raw, prepVars>>

LoadNext ==
    \/ \E ord \in Enumerations(raw.files) : EngineBuildIndex(ord)
    \/ \E ord \in Enumerations(raw.files), rev \in BOOLEAN : RagLoadAllData(ord, rev)

SpecLoad == LoadInit /\ [][LoadNext]_vars

-----------------------------------------------------------------------------
(* Consolidation of the per-ayah texts of one surah file:                    *)
(* preparation/data_ingestion.py process_author_folder.                      *)

AyahTexts == {"", "x", "y"}
MetadataLists == UNION { [1..n -> 1..MaxMetaAyah] : n \in 0..MaxMeta }

\* data_ingestion.py:44-61: the entries that have a text, by text, in the
\* order in which each text is first met (a dict keeps insertion order)
HasText(texts, ayah) == texts[ayah] # ""
RECURSIVE GroupKeys(_, _, _)
GroupKeys(meta, texts, seen) ==
    IF meta = <<>> THEN <<>>
    ELSE LET t == texts[Head(meta)]
         IN  IF t = "" \/ t \in seen THEN GroupKeys(Tail(meta), texts, seen)
             ELSE <<t>> \o GroupKeys(Tail(meta), texts, seen \cup {t})
GroupAyahs(meta, texts, t) == SelectSeq(meta, LAMBDA a : texts[a] = t)

\* data_ingestion.py:69-77: the sorted ayah numbers cut into runs n, n+1, ...
RECURSIVE GroupRanges(_, _, _)
GroupRanges(rest, start, end) ==
    IF rest = <<>> THEN << <<start, end>> >>
    ELSE IF Head(rest) = end + 1 THEN GroupRanges(Tail(rest), start, Head(rest))
    ELSE << <<start, end>> >> \o GroupRanges(Tail(rest), Head(rest), Head(rest))

\* data_ingestion.py:65-89
Consolidate(meta, texts) ==
    LET keys == GroupKeys(meta, texts, {})
        group(t) ==
            LET ayah_numbers == SortSeq(GroupAyahs(meta, texts, t), LAMBDA a, b : a < b)
                ranges == GroupRanges(Tail(ayah_numbers), Head(ayah_numbers),
                                      Head(ayah_numbers))
            IN  [i \in 1..Len(ranges) |-> [ayah_range |-> ranges[i], tafsir_text |-> t]]
    IN  Concat([k \in 1..Len(keys) |-> group(keys[k])])

PrepInit ==
    /\ CacheIdle /\ NoIndex /\ LifeIdle
    /\ found = NotFound /\ LookupIdle
    /\ metadata \in MetadataLists
    /\ ayah_texts \in [1..MaxMetaAyah -> AyahTexts]
    /\ consolidated = [done |-> FALSE, list |-> <<>>]

\* process_author_folder on a folder with one surah file
ProcessAuthorFolder ==
    /\ ~consolidated.done
    /\ consolidated' = [done |-> TRUE, list |-> Consolidate(metadata, ayah_texts)]
    /\ UNCHANGED <<cacheVars, indexVars, lifeVars, lookupVars, loadVars,
                   metadata, ayah_texts>>

PrepNext == ProcessAuthorFolder

SpecPrep == PrepInit /\ [][PrepNext]_vars

-----------------------------------------------------------------------------
(* C1: last-write-wins. Every get issued after a put on the same key returns *)
(* exactly the text of the most recent put on that key, however many other   *)
(* puts and gets came in between; nothing is evicted or expired.             *)
C1_LastWriteWins ==
    (ret # NoRet /\ ret.key \in DOMAIN lastPut)
        => ret.result = Hit(lastPut[ret.key])

\* a get that follows two puts on its key and a put on another key
C1_Witness ==
    /\ ret # NoRet
    /\ ret.key \in DOMAIN lastPut
    /\ puts = MaxPuts
    /\ Cardinality(DOMAIN lastPut) = 2
    /\ ret.result = Hit(<<"b", "c", "d">>)

(* C2: under every interleaving of gets and puts on one key a get returns    *)
(* Miss or the complete text of some put on that key, never the outcome of a *)
(* partially written file, and once no put is in progress on a file it holds *)
(* the complete value of one of the puts made to it.                         *)
WriterOn(path) ==
    \E p \in 1..NumProcs : procs[p].pc = "writing" /\ PathOf(procs[p].key) = path

C2_AtomicWrites ==
    /\ ret # NoRet =>
          \/ ret.result = Miss
          \/ /\ ret.result.kind = "hit"
             /\ PathOf(ret.key) \in DOMAIN written
             /\ ret.result.text \in written[PathOf(ret.key)]
    /\ \A path \in DOMAIN fs :
          ~WriterOn(path) =>
              \E t \in written[path], f \in {"translated_text", "reflection"} :
                  fs[path] = JsonDump(f, t)

-----------------------------------------------------------------------------
(* The passages of the index a request was served from, and their scores *)

IndexSize ==
    CASE req.engine = "rag" -> Len(faiss_index.rows)
      [] req.engine = "engine" -> Len(eng_embeddings.rows)
      [] OTHER -> Len(collection)

AuthorAt(i) ==
    CASE req.engine = "rag" -> documents[i].author
      [] req.engine = "engine" -> entries[i].author
      [] OTHER -> collection[i].author

SurahAt(i) ==
    CASE req.engine = "rag" -> IntV(documents[i].surah_no)
      [] req.engine = "engine" -> entries[i].surah
      [] OTHER -> collection[i].surah

\* cosine similarity of the request's query and passage i
ScoreAt(i) ==
    CASE req.engine = "rag" ->
            Cosine(Embed(model_name, req.query), Embed(model_name, documents[i].text))
      [] req.engine = "engine" ->
            Cosine(Embed(MODEL_DISTILUSE, TranslateText(req.query)),
                   Embed(MODEL_DISTILUSE, entries[i].text))
      [] OTHER ->
            Cosine(Embed(MODEL_DISTILUSE, req.query),
                   Embed(MODEL_DISTILUSE, collection[i].tafsir_text))

\* the filter as the contract states it: author equality and/or surah equality
Satisfies(i) ==
    /\ (req.author # "" => AuthorAt(i) = req.author)
    /\ (req.surah # PyNone => SurahAt(i) = req.surah)

NumSatisfying == Cardinality({ i \in 1..IndexSize : Satisfies(i) })

Returned == { results[j].idx : j \in 1..Len(results) }

(* C3: a search returns fewer than k results only when fewer than k passages *)
(* of the whole index satisfy the filter, never because the candidates were  *)
(* cut off before the filter was applied.                                    *)
C3_FewerOnlyWhenFewerExist ==
    (req # NoReq /\ Len(results) < req.k) => NumSatisfying < req.k

C5_SortedByScore ==
    req.engine \in {"rag", "engine"} =>
        /\ \A i, j \in 1..Len(results) :
              i < j => results[i].score >= results[j].score
        /\ \A j \in 1..Len(results) : results[j].score = ScoreAt(results[j].idx)
        /\ \A i \in (1..IndexSize) \ Returned :
              Satisfies(i) => \A j \in 1..Len(results) : ScoreAt(i) <= results[j].score

\* two results of different scores found in reverse index order, with a
\* passage of another author, scoring above the second result, filtered out
C5_Witness ==
    /\ req.engine \in {"rag", "engine"}
    /\ req.author = "ibn-katheer"
    /\ Len(results) = 2
    /\ results[1].score > results[2].score
    /\ results[1].idx > results[2].idx
    /\ \E i \in (1..IndexSize) \ Returned :
          AuthorAt(i) # req.author /\ ScoreAt(i) > results[2].score

-----------------------------------------------------------------------------
(* Snapshot files as a load saw them *)

IsRag == program \in {"api", "main"}
SnapshotFiles == IF IsRag THEN {"faiss", "docs", "meta"} ELSE {"entries", "emb"}
\* every file of the snapshot is there and completely written
Complete(d) == \A f \in SnapshotFiles : d[f].st = "ok"
\* as many vectors as passages
CountsMatch(d) ==
    IF IsRag THEN Len(d.faiss.data) = Len(d.docs.data)
    ELSE Len(d.entries.data) = Len(d.emb.data)

(* C6: whenever a vector index is held in memory it has as many vectors as   *)
(* there are passages and vector i is the embedding of passage i (normalised *)
(* in ArabicTafsirRAG), after any sequence of load_all_data,                 *)
(* create_embeddings, build_faiss_index, save, load, search and restarts.    *)
C6_Alignment ==
    /\ faiss_index.some =>
          /\ Len(faiss_index.rows) = Len(documents)
          /\ \E m \in Models : \A i \in 1..Len(documents) :
                faiss_index.rows[i] = Normalize(Embed(m, documents[i].text))
    /\ eng_embeddings.some =>
          /\ Len(eng_embeddings.rows) = Len(entries)
          /\ \A i \in 1..Len(entries) :
                eng_embeddings.rows[i] = Embed(MODEL_DISTILUSE, entries[i].text)

(* C7: a snapshot load reports success only if every snapshot file was there *)
(* and complete and the vector count equals the passage count; otherwise it  *)
(* returns False.                                                            *)
C7_LoadValidates ==
    loaded.ret = "true" => (Complete(loaded.seen) /\ CountsMatch(loaded.seen))

(* C8: a load does not succeed with a snapshot whose metadata names a model  *)
(* other than the one the process is configured with.                        *)
C8_ModelMatch ==
    (IsRag /\ loaded.ret = "true" /\ Complete(loaded.seen)
           /\ Len(loaded.seen.docs.data) > 0)
        => loaded.seen.meta.data[1].model_name = model_name

(* C9: a load that finds snapshot files and succeeds has read the files of   *)
(* one complete save, never files of different saves, a partially written    *)
(* file or a snapshot with a file not yet written, wherever a save stopped.  *)
C9_SaveAllOrNothing ==
    (loaded.ret = "true" /\ \E f \in SnapshotFiles : loaded.seen[f].st # "absent")
        => /\ Complete(loaded.seen)
           /\ \A f, g \in SnapshotFiles : loaded.seen[f].gen = loaded.seen[g].gen

(* C10: every search the startup sequence (the script of main.py, the        *)
(* constructor of TafsirSearchEngine) goes on to make is served from a built,*)
(* non-empty index whose snapshot is on disk, first start included.          *)
C10_RebuildBeforeSearch ==
    (program \in {"main", "engine"} /\ outcome # "none")
        => /\ outcome = "served"
           /\ IF IsRag THEN faiss_index.some /\ Len(faiss_index.rows) > 0
              ELSE eng_embeddings.some /\ Len(eng_embeddings.rows) > 0
           /\ Complete(disk)

(* C11: search_text(author, surah, ayah) returns the text of the passage of   *)
(* that author and surah whose inclusive ayah_range [start, end] contains the *)
(* ayah, boundaries and interior alike, and returns None when no range of    *)
(* that author and surah contains it.                                        *)
Containing ==
    { i \in 1..Len(collection) :
        /\ collection[i].author = found.author
        /\ collection[i].surah.n = found.surah.n
        /\ collection[i].ayah_range[1] <= found.ayah.n
        /\ found.ayah.n <= collection[i].ayah_range[2] }
C11_PointLookup ==
    found # NotFound =>
        IF Containing = {} THEN ~found.hit
        ELSE found.hit /\ \E i \in Containing : found.text = collection[i].tafsir_text

(* C12: a load of the corpus never aborts on a malformed entry: an entry with *)
(* a missing field, a non-numeric surah or ayah or an empty text is left out *)
(* of the passage store and every well-formed entry is loaded.               *)
WellFormed ==
    { LoadedPassage(f, i) : <<f, i>> \in
        { x \in raw.files \X (1..MaxEntries) :
            /\ x[1].stem.t = "int"
            /\ x[2] <= Len(x[1].kinds)
            /\ x[1].kinds[x[2]] = "ok" } }
StoreSet(l) == { l.store[i] : i \in 1..Len(l.store) }
C12_MalformedSkipped ==
    \A n \in 1..Len(loads) : ~loads[n].raised /\ StoreSet(loads[n]) = WellFormed

(* C14: two loads of the same corpus give the same ordered list of passages, *)
(* whatever order the file system enumerates the folders and files in.       *)
C14_DeterministicOrder ==
    \A m, n \in 1..Len(loads) :
        (loads[m].loader = loads[n].loader /\ ~loads[m].raised /\ ~loads[n].raised)
            => loads[m].store = loads[n].store

(* C13: building the vector index from an empty passage list fails: no index *)
(* of zero vectors is ever held by an engine and no snapshot file of an      *)
(* empty index or empty passage list is written.                             *)
C13_EmptyBuildFails ==
    /\ ~(faiss_index.some /\ Len(faiss_index.rows) = 0)
    /\ ~(eng_embeddings.some /\ Len(eng_embeddings.rows) = 0)
    /\ \A f \in {"faiss", "docs", "entries", "emb"} :
          disk[f].st = "ok" => Len(disk[f].data) > 0

(* C15: in TafsirSearchEngine.search two passages of equal score come in     *)
(* insertion order (smaller index first) and the results are the first k     *)
(* passages, in descending stable order, that pass the filter: a passing     *)
(* passage is left out only when k results rank before it.                   *)
EnginePasses(i) == EngineKeeps(entries[i], req.author, req.surah)
RanksBefore(i, sc, idx) == ScoreAt(i) > sc \/ (ScoreAt(i) = sc /\ i < idx)
C15_TiesByInsertionOrder ==
    req.engine = "engine" =>
        /\ \A i, j \in 1..Len(results) :
              i < j => RanksBefore(results[i].idx, results[j].score, results[j].idx)
        /\ \A i \in (1..IndexSize) \ Returned :
              EnginePasses(i) =>
                  /\ Len(results) = req.k
                  /\ \A j \in 1..Len(results) :
                        RanksBefore(results[j].idx, ScoreAt(i), i)

\* two results of equal score, and a passing passage of the same score left out
C15_Witness ==
    /\ req.engine = "engine"
    /\ Len(results) = 2
    /\ results[1].score = results[2].score
    /\ \E i \in (1..IndexSize) \ Returned :
          EnginePasses(i) /\ ScoreAt(i) = results[2].score

(* C16: the corpus is embedded at most once: when the snapshot of a built   *)
(* index, completely saved, is in the cache directory, no construction       *)
(* (python main.py, TafsirSearchEngine(...)) embeds the corpus again; it     *)
(* loads the snapshot.                                                       *)
BuiltSnapshot(d) ==
    /\ Complete(d)
    /\ \A f, g \in SnapshotFiles : d[f].gen = d[g].gen
    /\ IsRag => /\ Len(d.docs.data) > 0
                /\ Len(d.faiss.data) = Len(d.docs.data)
                /\ \A i \in 1..Len(d.docs.data) : d.docs.data[i].embedding # <<>>
EmbedsCorpus ==
    \/ pc = "e_build" /\ pc' = "e_save_entries"
    \/ pc = "m_embed" /\ pc' = "m_build"
C16_EmbedOnce == [][EmbedsCorpus => ~BuiltSnapshot(disk)]_vars

\* a second construction has loaded the snapshot that the process before it
\* built and saved
C16_Witness ==
    /\ runs = 2 /\ saves = 1
    /\ program \in {"main", "engine"}
    /\ loaded.ret = "true" /\ BuiltSnapshot(loaded.seen)
    /\ pc \in {"e_ready", "m_search"}
    /\ IF IsRag THEN faiss_index.some /\ Len(faiss_index.rows) > 0
       ELSE eng_embeddings.some /\ Len(eng_embeddings.rows) > 0

(* C17: process_author_folder writes ranges [start, end] with start <= end   *)
(* that do not overlap one another, also when an ayah_number occurs more     *)
(* than once in the metadata list; every ayah that has a text lies in        *)
(* exactly one range, and that range carries the ayah's text.                *)
RangesOver(ayah) ==
    { i \in 1..Len(consolidated.list) :
        /\ consolidated.list[i].ayah_range[1] <= ayah
        /\ ayah <= consolidated.list[i].ayah_range[2] }
C17_RangesDisjoint ==
    consolidated.done =>
        /\ \A i \in 1..Len(consolidated.list) :
              consolidated.list[i].ayah_range[1] <= consolidated.list[i].ayah_range[2]
        /\ \A i, j \in 1..Len(consolidated.list) :
              i # j => ~Overlap(consolidated.list[i].ayah_range,
                                consolidated.list[j].ayah_range)
        /\ \A n \in 1..Len(metadata) :
              HasText(ayah_texts, metadata[n]) =>
                  /\ Cardinality(RangesOver(metadata[n])) = 1
                  /\ \A i \in RangesOver(metadata[n]) :
                        consolidated.list[i].tafsir_text = ayah_texts[metadata[n]]

(* C18: a put on one key changes what get returns for that key only: at any *)
(* time every key reads as what the last put on that very key wrote, or as   *)
(* a miss if there was none; distinct keys (integer surah and ayah, language *)
(* codes without underscore) have distinct files, a translation and a        *)
(* reflection never share one, and a get creates and changes no file.        *)
DistinctFiles ==
    \A k1, k2 \in Keys \cup WideKeys :
        k1 # k2 => JoinPath(PathOf(k1)) # JoinPath(PathOf(k2))
C18_KeyIsolation ==
    \* the paths do not depend on the state: compared before the first put
    /\ puts = 0 => DistinctFiles
    /\ \A k \in Keys :
          LoadCached(fs, k) = IF k \in DOMAIN lastPut THEN Hit(lastPut[k]) ELSE Miss
    /\ DOMAIN fs = { PathOf(k) : k \in DOMAIN lastPut }

\* a get returns the value of a key after a later put on a key of the other
\* kind, with another text, went to its own file
C18_Witness ==
    /\ ret # NoRet
    /\ ret.key \in DOMAIN lastPut
    /\ ret.result = Hit(lastPut[ret.key])
    /\ Cardinality(DOMAIN fs) = 3
    /\ \E k \in DOMAIN lastPut :
          /\ k.kind # ret.key.kind
          /\ lastPut[k] # lastPut[ret.key]
          /\ LoadCached(fs, k) = Hit(lastPut[k])

=============================================================================
